---- MODULE Spec2Model ----
(***************************************************************************)
(* Model of the QCS6490 Vision AI demo.                                    *)
(*                                                                         *)
(*  - src/vai/gst_pipeline_runner.py : GstPipeline, the supervised         *)
(*    GStreamer pipeline with its watchdog (specification Spec/FairSpec).  *)
(*  - src/vai/handler.py             : Handler, the two demo slots and     *)
(*    their selection callbacks (specification SpecH).                     *)
(*    SpecStop, SpecStart and SpecHang add to Spec a caller that repeats   *)
(*    _teardown or _launch_pipeline, and set_state calls that block.       *)
(*  - Handler.getCommand with the templates of src/vai/common.py           *)
(*    (specification SpecR) and Handler.get_temps with the temperature     *)
(*    deques (specification SpecM).                                        *)
(*  - src/visionai.py              : QProfProcess, the thread that reads  *)
(*    the load figures from the qprof process (specification SpecQ).       *)
(*                                                                         *)
(* Time is counted in milliseconds and advances in steps of ClockStep.     *)
(***************************************************************************)
EXTENDS Integers, Sequences, FiniteSets, TLC

VARIABLES sup, now, hd, rv, mt, qp

vars == <<sup, now, hd, rv, mt, qp>>

\* Python's None (an absent time stamp, pipeline or demo process).
None == 0 - 1

(***************************************************************************)
(* Bounds of the model.                                                    *)
(***************************************************************************)
\* Number of clock steps the clock may advance.
MaxTicks == 26

\* Number of selection events the user issues.
MaxSelections == 2

\* Number of set_state calls that do not return at once.
MaxHangs == 1

\* Number of times a caller repeats _teardown after run() returned, or
\* _launch_pipeline while the pipeline runs.
MaxExtraCalls == 1

(***************************************************************************)
(* Program constants.                                                      *)
(***************************************************************************)
\* GST_WATCHDOG_TIMER_MAX_s = 1.5, expressed in milliseconds.
GST_WATCHDOG_TIMER_MAX_ms == 1500

GST_WATCHDOG_CHECK_PERIOD_ms == 250

\* Granularity of the model's clock.
ClockStep == GST_WATCHDOG_CHECK_PERIOD_ms

MaxTime == MaxTicks * ClockStep

(***************************************************************************)
(* GstPipeline (src/vai/gst_pipeline_runner.py)                            *)
(*                                                                         *)
(* sup is the GstPipeline object together with the GStreamer and GLib      *)
(* objects it owns:                                                        *)
(*   enabled, last_buffer_time, pipeline, loop : the object's fields       *)
(*   pipes  : the Gst pipelines created so far; pipes[h].state is the      *)
(*            state last set on handle h, .fed whether h delivered a       *)
(*            buffer handoff, .by who tore it down, .at when it was        *)
(*            launched                                                     *)
(*   timers : the armed GLib timeout sources [id, due]                     *)
(*   trace  : the calls made on GStreamer and GLib, in order               *)
(*   checks : how many times _watchdog_timer_check has run                 *)
(*   cause  : what made the loop quit                                      *)
(*   raised : an exception escaped one of the object's methods             *)
(*   stops  : calls of _teardown made after run() returned                 *)
(*   starts : calls of _launch_pipeline made while the pipeline runs       *)
(*   hangs  : how many set_state calls did not return at once              *)
(*   hung   : the set_state call of _pipeline_teardown that has not        *)
(*            returned: who called _pipeline_teardown, which of the three  *)
(*            calls it is, since when, and the timeout being dispatched    *)
(*   pc     : "new" before run(), "loop" inside loop.run(), "blocked"      *)
(*            inside a set_state call that has not returned, "done" after  *)
(*            run()                                                        *)
(***************************************************************************)
NoHang == [who |-> "none", call |-> 0, at |-> 0, tm |-> [id |-> 0, due |-> 0]]

GstInit ==
    [ enabled          |-> FALSE,
      last_buffer_time |-> None,
      loop             |-> "none",
      pipeline         |-> None,
      pipes            |-> << >>,
      timers           |-> {},
      trace            |-> << >>,
      checks           |-> 0,
      cause            |-> "none",
      raised           |-> FALSE,
      stops            |-> 0,
      starts           |-> 0,
      hangs            |-> 0,
      hung             |-> NoHang,
      pc               |-> "new" ]

\* The handles that are not in state NULL after the calls of trace tr.
RECURSIVE LiveAfter(_)
LiveAfter(tr) ==
    IF tr = << >> THEN {}
    ELSE LET e    == tr[Len(tr)]
             prev == LiveAfter(SubSeq(tr, 1, Len(tr) - 1))
         IN  IF e[1] = "set_state"
             THEN IF e[3] = "NULL" THEN prev \ {e[2]} ELSE prev \cup {e[2]}
             ELSE prev

LiveHandles(s) == { h \in 1..Len(s.pipes) : s.pipes[h].state # "NULL" }

\* pipeline.set_state(st) on handle h.
set_state(s, h, st) ==
    [s EXCEPT !.pipes[h].state = st,
              !.trace = Append(@, <<"set_state", h, st>>)]

\* The interval of the watchdog timeout: int(GST_WATCHDOG_TIMER_MAX_s * 1000).
WatchdogInterval == GST_WATCHDOG_TIMER_MAX_ms

\* GLib.timeout_add(interval, self._watchdog_timer_check) at time t.
timeout_add(s, t) ==
    LET id == Len(s.pipes)
    IN  [s EXCEPT !.timers = @ \cup {[id |-> id, due |-> t + WatchdogInterval]},
                  !.trace  = Append(@, <<"timeout_add", id>>)]

\* GstPipeline._launch_pipeline at time t.
launch_pipeline(s, t) ==
    LET h  == Len(s.pipes) + 1
        s1 == [s EXCEPT !.enabled  = TRUE,
                        !.pipes    = Append(@, [state |-> "NULL", fed |-> FALSE,
                                                by |-> "none", at |-> t]),
                        !.pipeline = h,
                        !.trace    = Append(@, <<"parse_launch", h>>)]
    IN  timeout_add(set_state(s1, h, "PLAYING"), t)

\* GstPipeline._on_buffer_handoff at time t.
on_buffer_handoff(s, t) ==
    [s EXCEPT !.last_buffer_time = t,
              !.pipes[s.pipeline].fed = TRUE]

\* _pipeline_teardown that only drops the reference and never shuts the
\* pipeline down.
pipeline_teardown_dropsHandle(s, who) ==
    IF s.pipeline # None
    THEN [s EXCEPT !.pipes[s.pipeline].by = who, !.pipeline = None]
    ELSE s

\* _pipeline_teardown without the test for an absent pipeline: set_state is
\* called on None and raises.
pipeline_teardown_noNoneTest(s, who) ==
    IF s.pipeline = None
    THEN [s EXCEPT !.raised = TRUE]
    ELSE LET h  == s.pipeline
             s1 == set_state(s, h, "PAUSED")
             s2 == set_state(s1, h, "READY")
             s3 == set_state(s2, h, "NULL")
         IN  [s3 EXCEPT !.pipes[h].by = who, !.pipeline = None]

\* GstPipeline._pipeline_teardown, called by who at time t, up to its k-th
\* set_state call, which does not return; tm is the timeout whose callback
\* is running.
pipeline_teardown_blocks(s, who, k, t, tm) ==
    LET h  == s.pipeline
        s1 == IF k > 1 THEN set_state(s, h, "PAUSED") ELSE s
        s2 == IF k > 2 THEN set_state(s1, h, "READY") ELSE s1
    IN  [s2 EXCEPT !.hung  = [who |-> who, call |-> k, at |-> t, tm |-> tm],
                   !.hangs = @ + 1,
                   !.pc    = "blocked"]

\* The rest of GstPipeline._pipeline_teardown once the set_state call it was
\* blocked in has returned.
pipeline_teardown_resumes(s) ==
    LET h  == s.pipeline
        k  == s.hung.call
        s1 == IF k <= 1 THEN set_state(s, h, "PAUSED") ELSE s
        s2 == IF k <= 2 THEN set_state(s1, h, "READY") ELSE s1
        s3 == set_state(s2, h, "NULL")
    IN  [s3 EXCEPT !.pipes[h].by = s.hung.who, !.pipeline = None,
                   !.hung = NoHang]

\* _pipeline_teardown that goes from PAUSED straight to NULL.
pipeline_teardown_skipsReady(s, who) ==
    IF s.pipeline # None
    THEN LET h  == s.pipeline
             s1 == set_state(s, h, "PAUSED")
             s3 == set_state(s1, h, "NULL")
         IN  [s3 EXCEPT !.pipes[h].by = who, !.pipeline = None]
    ELSE s

\* GstPipeline._pipeline_teardown, called by who.
pipeline_teardown(s, who) ==
    IF s.pipeline # None
    THEN LET h  == s.pipeline
             s1 == set_state(s, h, "PAUSED")
             s2 == set_state(s1, h, "READY")
             s3 == set_state(s2, h, "NULL")
         IN  [s3 EXCEPT !.pipes[h].by = who, !.pipeline = None]
    ELSE s

\* The elapsed-time test of _watchdog_timer_check.
Stale(s, t) == t - s.last_buffer_time > GST_WATCHDOG_TIMER_MAX_ms

\* Whether _watchdog_timer_check, run at time t, goes on to restart.
Restarts(s, t) ==
    /\ s.enabled
    /\ s.last_buffer_time # None
    /\ Stale(s, t)

\* _watchdog_timer_check without the test for an absent last_buffer_time: the
\* time since launch counts as staleness.
watchdog_timer_check_noSignalTest(s, tm, t, late) ==
    LET s0    == [s EXCEPT !.checks = @ + 1]
        rearm == [s0 EXCEPT !.timers = (@ \ {tm}) \cup
                                {[id |-> tm.id, due |-> t + WatchdogInterval]}]
        drop  == [s0 EXCEPT !.timers = @ \ {tm}]
    IN  IF ~s.enabled THEN drop
        ELSE IF Stale(s, t)
             THEN LET s1 == [drop EXCEPT !.last_buffer_time = None]
                  IN  launch_pipeline(pipeline_teardown(s1, "watchdog"), t)
             ELSE rearm

\* _watchdog_timer_check that returns False while last_buffer_time is
\* absent: the timeout is not re-armed.
watchdog_timer_check_dropsWhenSilent(s, tm, t, late) ==
    LET s0    == [s EXCEPT !.checks = @ + 1]
        rearm == [s0 EXCEPT !.timers = (@ \ {tm}) \cup
                                {[id |-> tm.id, due |-> t + WatchdogInterval]}]
        drop  == [s0 EXCEPT !.timers = @ \ {tm}]
    IN  IF ~s.enabled THEN drop
        ELSE IF s.last_buffer_time = None THEN drop
        ELSE IF Stale(s, t)
             THEN LET s1 == [drop EXCEPT !.last_buffer_time = None]
                      s2 == IF late THEN on_buffer_handoff(s1, t) ELSE s1
                  IN  launch_pipeline(pipeline_teardown(s2, "watchdog"), t)
             ELSE rearm

\* _watchdog_timer_check that returns True after a restart: its own timeout
\* stays armed beside the one _launch_pipeline added.
watchdog_timer_check_rearmsAfterRestart(s, tm, t, late) ==
    LET s0    == [s EXCEPT !.checks = @ + 1]
        rearm == [s0 EXCEPT !.timers = (@ \ {tm}) \cup
                                {[id |-> tm.id, due |-> t + WatchdogInterval]}]
        drop  == [s0 EXCEPT !.timers = @ \ {tm}]
    IN  IF ~s.enabled THEN drop
        ELSE IF s.last_buffer_time = None THEN rearm
        ELSE IF Stale(s, t)
             THEN LET s1 == [rearm EXCEPT !.last_buffer_time = None]
                      s2 == IF late THEN on_buffer_handoff(s1, t) ELSE s1
                  IN  launch_pipeline(pipeline_teardown(s2, "watchdog"), t)
             ELSE rearm

\* GstPipeline._watchdog_timer_check, dispatched for timer tm at time t.
\* The callback's return value decides whether tm stays armed.  late: the
\* streaming thread of the pipeline being torn down hands off one more buffer
\* after last_buffer_time was cleared and before the pipeline left PLAYING.
watchdog_timer_check(s, tm, t, late) ==
    LET s0    == [s EXCEPT !.checks = @ + 1]
        rearm == [s0 EXCEPT !.timers = (@ \ {tm}) \cup
                                {[id |-> tm.id, due |-> t + WatchdogInterval]}]
        drop  == [s0 EXCEPT !.timers = @ \ {tm}]
    IN  IF ~s.enabled THEN drop
        ELSE IF s.last_buffer_time = None THEN rearm
        ELSE IF Stale(s, t)
             THEN LET s1 == [drop EXCEPT !.last_buffer_time = None]
                      s2 == IF late THEN on_buffer_handoff(s1, t) ELSE s1
                      s3 == pipeline_teardown(s2, "watchdog")
                  IN  launch_pipeline(s3, t)
             ELSE rearm

\* GstPipeline._stop_loop.
stop_loop(s) ==
    IF s.loop # "none"
    THEN [s EXCEPT !.loop = "quit", !.trace = Append(@, <<"quit">>)]
    ELSE s

\* GstPipeline._on_message for a bus message of type m.
on_message(s, m) ==
    IF m \in {"ERROR", "EOS"}
    THEN [stop_loop(s) EXCEPT !.cause = IF s.cause = "none" THEN m ELSE @]
    ELSE s

\* _teardown that resets the flags and quits the loop but leaves the
\* pipeline as it is.
teardown_flagsOnly(s) ==
    IF s.loop # "none"
    THEN [s EXCEPT !.enabled = FALSE, !.last_buffer_time = None, !.loop = "quit"]
    ELSE [s EXCEPT !.enabled = FALSE, !.last_buffer_time = None]

\* _teardown that shuts the pipeline down and quits the loop but leaves
\* enabled and last_buffer_time as they are.
teardown_keepsWatchdog(s) == stop_loop(pipeline_teardown(s, "teardown"))

\* GstPipeline._teardown.
teardown(s) ==
    LET s1 == pipeline_teardown(s, "teardown")
    IN  stop_loop([s1 EXCEPT !.enabled = FALSE, !.last_buffer_time = None])

(***************************************************************************)
(* Handler (src/vai/handler.py)                                            *)
(*                                                                         *)
(* hd is the Handler object together with the camThread objects it made:   *)
(*   pc     : "boot" after __init__, "main" while Gtk.main() runs,         *)
(*            "exited" after exit()                                        *)
(*   demoProcess : demoProcess0 and demoProcess1, indexed by slot 0 and 1  *)
(*   procs  : the camThread objects created so far; .demo and .stream are  *)
(*            the arguments of getCommand, .state is created, started or   *)
(*            closed, .closes counts the close() calls made on it          *)
(*   queue  : combo box changes the user made, not yet dispatched          *)
(*   stack  : the selection callbacks that are inside kill_demos' sleep    *)
(*   time   : time spent so far, in milliseconds                           *)
(*   log    : the calls made, in order                                     *)
(*   issued : how many selections the user made                            *)
(*   last   : the selection whose callback returned last                   *)
(***************************************************************************)
demoList ==
    << "None", "CAMERA", "POSE_DETECTION", "SEGMENTATION", "CLASSIFICATION",
       "OBJECT_DETECTION", "DEPTH_SEGMENTATION" >>

\* The indices combo.get_active() can return.
DemoIndices == 0..(Len(demoList) - 1)

DUAL_WINDOW_DEMOS == {"depth segmentation"}

\* The settle delay of kill_demos, sleep(0.5), in milliseconds.
SETTLE_DELAY_ms == 500

Slots == {0, 1}

OtherSlot(slot) == 1 - slot

\* The ids of the combo box items, in the order of demoList.
ComboItemIds ==
    << "None", "Camera", "Pose Detection", "Segmentation", "Classification",
       "Object Detection", "Depth Segmentation" >>

\* combo.get_active_id() when combo.get_active() is index.
get_active_id(index) == ComboItemIds[index + 1]

\* str.lower() on the combo ids.
lower(id) ==
    CASE id = "None"               -> "none"
      [] id = "Camera"             -> "camera"
      [] id = "Pose Detection"     -> "pose detection"
      [] id = "Segmentation"       -> "segmentation"
      [] id = "Classification"     -> "classification"
      [] id = "Object Detection"   -> "object detection"
      [] id = "Depth Segmentation" -> "depth segmentation"
      [] OTHER                     -> id

\* demo.lower() in DUAL_WINDOW_DEMOS, for the selection at index.
IsDual(index) == lower(get_active_id(index)) \in DUAL_WINDOW_DEMOS

HandlerInit ==
    [ pc          |-> "boot",
      demoProcess |-> [slot \in Slots |-> None],
      procs       |-> << >>,
      queue       |-> << >>,
      stack       |-> << >>,
      time        |-> 0,
      log         |-> << >>,
      issued      |-> 0,
      last        |-> << >> ]

\* camThread(self.getCommand(index, stream_index)) assigned to the slot.
camThread(h, slot, index, stream_index) ==
    [h EXCEPT !.procs = Append(@, [demo |-> index, stream |-> stream_index,
                                   state |-> "created", closes |-> 0]),
              !.demoProcess[slot] = Len(h.procs) + 1]

\* camThread.start() on process p.
start(h, p) ==
    [h EXCEPT !.procs[p].state = "started",
              !.log = Append(@, <<"start", p, h.time>>)]

\* camThread.close() on process p: returns when the process has stopped.
close(h, p) ==
    [h EXCEPT !.procs[p].state = "closed",
              !.procs[p].closes = @ + 1,
              !.log = Append(@, <<"close", p, h.time>>)]

\* time.sleep(ms / 1000).
sleep(h, ms) ==
    [h EXCEPT !.time = @ + ms,
              !.log = Append(@, <<"sleep", ms, h.time + ms>>)]

\* kill_demos without the rule for dual-output demos.
KillSlots_ownSlotOnly(demo_process, index) == {demo_process}

\* kill_demos that closes both slots for every selection.
KillSlots_bothAlways(demo_process, index) == {0, 1}

\* The slots kill_demos closes: kill0 and kill1.
KillSlots(demo_process, index) ==
    IF IsDual(index) THEN Slots ELSE {demo_process}

\* Handler.kill_demos up to its sleep: closes the processes to be killed.
kill_demos(h, demo_process, index) ==
    LET kill == KillSlots(demo_process, index)
        h0   == IF 0 \in kill /\ h.demoProcess[0] # None
                THEN close(h, h.demoProcess[0]) ELSE h
        h1   == IF 1 \in kill /\ h0.demoProcess[1] # None
                THEN close(h0, h0.demoProcess[1]) ELSE h0
    IN  h1

\* kill_demos without its sleep.
kill_demos_noSleep(h) == h

\* The sleep that ends kill_demos.
kill_demos_sleep(h) == sleep(h, SETTLE_DELAY_ms)

\* A selection callback that keeps the reference on an empty selection.
selection_changed_cb_keepsReference(h, slot, index) ==
    IF index = 0
    THEN h
    ELSE LET h1 == camThread(h, slot, index, slot)
         IN  start(h1, h1.demoProcess[slot])

\* demo0_selection_changed_cb / demo1_selection_changed_cb after kill_demos.
selection_changed_cb(h, slot, index) ==
    IF index = 0
    THEN [h EXCEPT !.demoProcess[slot] = None]
    ELSE LET h1 == camThread(h, slot, index, slot)
         IN  start(h1, h1.demoProcess[slot])

\* A wait in kill_demos that lets the main loop dispatch further callbacks.
CanDispatch_reentrant(h) == h.pc = "main"

\* Gtk dispatches a callback only when no callback is running: the sleep of
\* kill_demos blocks the main loop.
CanDispatch(h) == h.pc = "main" /\ h.stack = << >>

\* Video.localApp: the two initial demo processes; only the first is started.
localApp(h) ==
    LET h1 == camThread(h, 0, 4, 0)
        h2 == camThread(h1, 1, 1, 1)
    IN  [start(h2, h2.demoProcess[0]) EXCEPT !.pc = "main"]

\* Handler.on_mainWindow_destroy.
on_mainWindow_destroy(h) ==
    LET h0 == IF h.demoProcess[0] # None THEN close(h, h.demoProcess[0]) ELSE h
        h1 == IF h0.demoProcess[1] # None THEN close(h0, h0.demoProcess[1]) ELSE h0
    IN  h1

LiveProcs(h) == { p \in 1..Len(h.procs) : h.procs[p].state = "started" }

(***************************************************************************)
(* Handler.getCommand (src/vai/handler.py, src/vai/common.py)              *)
(*                                                                         *)
(* A command is a sequence of tokens: <<"ph", name>> is a placeholder tag, *)
(* <<"text", s>> literal text, <<"v4l2src device=", d>> and                *)
(* <<"x= y= width= height=", x, y, w, h>> the formatted values.  A camera  *)
(* /dev/videoN is the number N.                                            *)
(*                                                                         *)
(* rv is the part of the Handler object getCommand works on:               *)
(*   allocated_sizes, DrawArea1_x .. DrawArea2_h, cam1, cam2,              *)
(*   display_fps_metrics : the object's fields                             *)
(*   alloc   : what DrawArea1 and DrawArea2 report as their allocation     *)
(*   demoIndex, stream_index : the arguments of the last call              *)
(*   status  : "none" before the first call, "ok" when the call returned,  *)
(*             else the exception it raised                                *)
(*   command : the command the call returned                               *)
(***************************************************************************)
\* Largest x and y of a draw area's allocation.
MaxCoord == 1

\* Largest width and height of a draw area's allocation.
MaxSize == 2

\* How far the demo indices tried reach beyond demoList on either side.
MaxBeyond == 1

HEIGHT_OFFSET == 17

T(s) == <<"text", s>>

PH(name) == <<"ph", name>>

Placeholders ==
    { "<DATA_SRC>", "<SINGLE_DISPLAY>", "<DUAL_DISPLAY>", "<ONE_WINDOW_XYWH>",
      "<DUAL_WINDOW_XYWH>" }

DEFAULT_LEFT_WINDOW ==
    << T("waylandsink async=true sync=false "), PH("<ONE_WINDOW_XYWH>") >>

DEFAULT_DUAL_WINDOW ==
    << T("waylandsink async=true sync=false "), PH("<DUAL_WINDOW_XYWH>") >>

CAMERA ==
    << PH("<DATA_SRC>"),
       T(" ! qtivtransform ! video/x-raw(memory:GBM),format=NV12,width=640,height=480,framerate=30/1,compression=ubwc ! ") >>
    \o DEFAULT_LEFT_WINDOW

POSE_DETECTION ==
    << PH("<DATA_SRC>"),
       T(" ! qtivtransform ! video/x-raw(memory:GBM),format=NV12,width=640,height=480,framerate=30/1,compression=ubwc ! tee name=split split. ! queue ! qtivcomposer name=mixer ! "),
       PH("<SINGLE_DISPLAY>"),
       T(" split. ! queue ! qtimlvconverter ! qtimltflite model=/opt/posenet_mobilenet_v1.tflite ! qtimlvpose constants=Posenet,q-offsets="),
       T("<128.0,128.0,117.0>"),
       T(",q-scales="),
       T("<0.0784313753247261,0.0784313753247261,1.3875764608383179>"),
       T("; ! video/x-raw,format=BGRA,width=640,height=480 ! mixer.") >>

SEGMENTATION ==
    << PH("<DATA_SRC>"),
       T(" ! qtivtransform ! video/x-raw(memory:GBM),format=NV12,width=640,height=360,framerate=30/1,compression=ubwc ! tee name=split split. ! queue ! qtivcomposer name=mixer sink_1::alpha=0.5 ! queue ! "),
       PH("<SINGLE_DISPLAY>"),
       T(" split. ! queue ! qtimlvconverter ! queue ! qtimltflite model=/opt/deeplabv3_resnet50.tflite ! queue ! qtimlvsegmentation module=deeplab-argmax ! video/x-raw,width=256,height=144 ! queue ! mixer.") >>

CLASSIFICATION ==
    << PH("<DATA_SRC>"),
       T(" ! qtivtransform ! video/x-raw(memory:GBM),format=NV12,width=640,height=480,framerate=30/1,compression=ubwc !queue ! tee name=split split. ! queue ! qtivcomposer name=mixer sink_1::position="),
       T("<30,30>"),
       T(" sink_1::dimensions="),
       T("<320, 180>"),
       T(" ! queue ! "),
       PH("<SINGLE_DISPLAY>"),
       T(" split. ! queue ! qtimlvconverter ! queue ! qtimlsnpe delegate=dsp model=/opt/inceptionv3.dlc ! queue ! qtimlvclassification module=mobilenet ! video/x-raw,format=BGRA,width=640,height=360 ! queue ! mixer.") >>

OBJECT_DETECTION ==
    << PH("<DATA_SRC>"),
       T(" ! qtivtransform ! video/x-raw(memory:GBM),format=NV12,width=640,height=480,framerate=30/1,compression=ubwc !queue ! tee name=split split. ! queue ! qtivcomposer name=mixer1 ! queue ! "),
       PH("<SINGLE_DISPLAY>"),
       T(" split. ! queue ! qtimlvconverter ! queue ! qtimlsnpe delegate=dsp model=/opt/yolonas.dlc layers="),
       T("</heads/Mul, /heads/Sigmoid>"),
       T(" ! queue ! qtimlvdetection module=yolo-nas ! video/x-raw,format=BGRA,width=640,height=480 ! queue ! mixer1.") >>

DEPTH_SEGMENTATION ==
    << PH("<DATA_SRC>"),
       T(" ! qtivtransform ! video/x-raw(memory:GBM),format=NV12,width=1920,height=1080,framerate=30/1,compression=ubwc ! tee name=split split. ! queue ! qtivcomposer background=0 name=dual sink_0::position="),
       T("<0,0>"),
       T(" sink_0::dimensions="),
       T("<960,720>"),
       T(" sink_1::position="),
       T("<960,0>"),
       T(" sink_1::dimensions="),
       T("<960,720>"),
       T(" ! queue ! "),
       PH("<DUAL_DISPLAY>"),
       T(" split. ! queue ! qtimlvconverter ! queue ! qtimltflite model=/opt/Midas-V2-Quantized.tflite ! queue ! qtimlvsegmentation module=midas-v2 constants=Midas,q-offsets="),
       T("<0.0>"),
       T(",q-scales="),
       T("<4.716535568237305>"),
       T("; ! video/x-raw,width=960,height=720 ! queue ! dual.sink_1") >>

\* The template an entry of demoList names.
TemplateOf(entry) ==
    CASE entry = "CAMERA"             -> CAMERA
      [] entry = "POSE_DETECTION"     -> POSE_DETECTION
      [] entry = "SEGMENTATION"       -> SEGMENTATION
      [] entry = "CLASSIFICATION"     -> CLASSIFICATION
      [] entry = "OBJECT_DETECTION"   -> OBJECT_DETECTION
      [] entry = "DEPTH_SEGMENTATION" -> DEPTH_SEGMENTATION

\* Python's list[i]: 0-based, a negative i counts from the end, anything else
\* raises IndexError.
PyIndex(list, i) ==
    IF 0 <= i /\ i < Len(list) THEN list[i + 1]
    ELSE IF 0 - Len(list) <= i /\ i < 0 THEN list[Len(list) + i + 1]
    ELSE "IndexError"

\* str.replace: every occurrence of the tag ph in command is replaced.
RECURSIVE replace(_, _, _)
replace(command, ph, by) ==
    IF command = << >> THEN << >>
    ELSE LET tok == Head(command)
         IN  (IF tok[1] = "ph" /\ tok[2] = ph THEN by ELSE <<tok>>)
               \o replace(Tail(command), ph, by)

\* f"x={x} y={y} width={w} height={h}"
xywh(x, y, w, h) == <<"x= y= width= height=", x, y, w, h>>

\* f'{displaysink_text}"{window}"'
displaysink(r, window) ==
    (IF r.display_fps_metrics
     THEN << T("fpsdisplaysink text-overlay=true video-sink=") >>
     ELSE << >>)
    \o << T("\"") >> \o window \o << T("\"") >>

\* _modify_command_pipeline that fills in the window geometry before it
\* expands the display tags.
modify_command_pipeline_geometryFirst(r, command, stream_index) ==
    LET x  == IF stream_index = 0 THEN r.DrawArea1_x ELSE r.DrawArea2_x
        y  == IF stream_index = 0 THEN r.DrawArea1_y ELSE r.DrawArea2_y
        w  == IF stream_index = 0 THEN r.DrawArea1_w ELSE r.DrawArea2_w
        h  == IF stream_index = 0 THEN r.DrawArea1_h ELSE r.DrawArea2_h
        c1 == replace(command, "<ONE_WINDOW_XYWH>", <<xywh(x, y, w, h)>>)
        c2 == replace(c1, "<DUAL_WINDOW_XYWH>",
                      <<xywh(r.DrawArea1_x, r.DrawArea1_y, 2 * w, h)>>)
        c3 == replace(c2, "<SINGLE_DISPLAY>", displaysink(r, DEFAULT_LEFT_WINDOW))
        c4 == replace(c3, "<DUAL_DISPLAY>", displaysink(r, DEFAULT_DUAL_WINDOW))
    IN  replace(c4, "<DATA_SRC>",
                << <<"v4l2src device=",
                     IF stream_index = 0 THEN r.cam1 ELSE r.cam2>> >>)

\* _modify_command_pipeline that places the dual window at the origin of the
\* draw area of the stream it is called for.
modify_command_pipeline_ownOrigin(r, command, stream_index) ==
    LET c1 == replace(command, "<SINGLE_DISPLAY>", displaysink(r, DEFAULT_LEFT_WINDOW))
        c2 == replace(c1, "<DUAL_DISPLAY>", displaysink(r, DEFAULT_DUAL_WINDOW))
        c3 == replace(c2, "<DATA_SRC>",
                      << <<"v4l2src device=",
                           IF stream_index = 0 THEN r.cam1 ELSE r.cam2>> >>)
        x  == IF stream_index = 0 THEN r.DrawArea1_x ELSE r.DrawArea2_x
        y  == IF stream_index = 0 THEN r.DrawArea1_y ELSE r.DrawArea2_y
        w  == IF stream_index = 0 THEN r.DrawArea1_w ELSE r.DrawArea2_w
        h  == IF stream_index = 0 THEN r.DrawArea1_h ELSE r.DrawArea2_h
        c4 == replace(c3, "<ONE_WINDOW_XYWH>", <<xywh(x, y, w, h)>>)
    IN  replace(c4, "<DUAL_WINDOW_XYWH>", <<xywh(x, y, 2 * w, h)>>)

\* Handler._modify_command_pipeline.
modify_command_pipeline(r, command, stream_index) ==
    LET c1 == replace(command, "<SINGLE_DISPLAY>", displaysink(r, DEFAULT_LEFT_WINDOW))
        c2 == replace(c1, "<DUAL_DISPLAY>", displaysink(r, DEFAULT_DUAL_WINDOW))
        c3 == replace(c2, "<DATA_SRC>",
                      << <<"v4l2src device=",
                           IF stream_index = 0 THEN r.cam1 ELSE r.cam2>> >>)
        x  == IF stream_index = 0 THEN r.DrawArea1_x ELSE r.DrawArea2_x
        y  == IF stream_index = 0 THEN r.DrawArea1_y ELSE r.DrawArea2_y
        w  == IF stream_index = 0 THEN r.DrawArea1_w ELSE r.DrawArea2_w
        h  == IF stream_index = 0 THEN r.DrawArea1_h ELSE r.DrawArea2_h
        c4 == replace(c3, "<ONE_WINDOW_XYWH>", <<xywh(x, y, w, h)>>)
    IN  replace(c4, "<DUAL_WINDOW_XYWH>",
                <<xywh(r.DrawArea1_x, r.DrawArea1_y, 2 * w, h)>>)

\* Handler.update_window_allocations.
update_window_allocations(r) ==
    IF ~r.allocated_sizes
    THEN [r EXCEPT !.DrawArea1_x = r.alloc[0].x,
                   !.DrawArea1_y = r.alloc[0].y + HEIGHT_OFFSET,
                   !.DrawArea1_w = r.alloc[0].width,
                   !.DrawArea1_h = r.alloc[0].height,
                   !.DrawArea2_x = r.alloc[1].x,
                   !.DrawArea2_y = r.alloc[1].y + HEIGHT_OFFSET,
                   !.DrawArea2_w = r.alloc[1].width,
                   !.DrawArea2_h = r.alloc[1].height,
                   !.allocated_sizes = TRUE]
    ELSE r

\* Handler.getCommand.  demoList[demoIndex][:] raises IndexError for an index
\* outside the list and TypeError for the entry None.
getCommand(r, demoIndex, stream_index) ==
    LET r1    == [update_window_allocations(r)
                     EXCEPT !.demoIndex = demoIndex,
                            !.stream_index = stream_index]
        entry == PyIndex(demoList, demoIndex)
    IN  IF entry = "IndexError"
        THEN [r1 EXCEPT !.status = "IndexError", !.command = << >>]
        ELSE IF entry = "None"
        THEN [r1 EXCEPT !.status = "TypeError", !.command = << >>]
        ELSE [r1 EXCEPT !.status = "ok",
                        !.command = modify_command_pipeline(r1, TemplateOf(entry),
                                                            stream_index)]

\* The allocations a draw area can report.
Allocations ==
    [ x : 0..MaxCoord, y : 0..MaxCoord, width : 1..MaxSize, height : 1..MaxSize ]

\* The device numbers get_usb_cameras found: none, one or two cameras.
USBCameraLists == { << >>, <<0>>, <<0, 2>> }

\* Handler.__init__: the fields getCommand works on.
ResolverInit(alloc, USBCameras, display_fps_metrics) ==
    [ allocated_sizes     |-> FALSE,
      DrawArea1_x |-> None, DrawArea1_y |-> None,
      DrawArea1_w |-> None, DrawArea1_h |-> None,
      DrawArea2_x |-> None, DrawArea2_y |-> None,
      DrawArea2_w |-> None, DrawArea2_h |-> None,
      display_fps_metrics |-> display_fps_metrics,
      cam1         |-> IF Len(USBCameras) > 0 THEN USBCameras[1] ELSE None,
      cam2         |-> IF Len(USBCameras) > 1 THEN USBCameras[2] ELSE None,
      alloc        |-> alloc,
      demoIndex    |-> None,
      stream_index |-> None,
      status       |-> "none",
      command      |-> << >> ]

ResolverInits ==
    { ResolverInit(a, c, f) :
        a \in [Slots -> Allocations], c \in USBCameraLists, f \in BOOLEAN }

\* The demo indices getCommand is called with.
IndexInputs == (0 - Len(demoList) - MaxBeyond)..(Len(demoList) - 1 + MaxBeyond)

(***************************************************************************)
(* Handler.get_temps (src/vai/handler.py)                                  *)
(*                                                                         *)
(* mt is the part of the Handler object get_temps works on:                *)
(*   cpu_temp, mem_temp, gpu_temp : the deques of the object               *)
(*   cycles  : how many times get_temps has run                            *)
(*   arrived : the samples <<cpuTemp, memTemp, gpuTemp>> appended so far,  *)
(*             in order                                                    *)
(*   singles : how many of the runs were single steps of the model         *)
(* A reading of psutil.sensors_temperatures() is the sequence of its items *)
(* <<name, entries>>, entries being the sequence of the values .current,   *)
(* in degrees.                                                             *)
(***************************************************************************)
\* Number of sampling cycles taken one at a time.
MaxCycles == 3

\* The length of the temperature deques: deque([0] * 1800, maxlen=1800).
TEMP_SAMPLES == 1800

CpuThermalNames ==
    { "cpu0_thermal", "cpu1_thermal", "cpu2_thermal", "cpu3_thermal",
      "cpu4_thermal", "cpu5_thermal", "cpu6_thermal", "cpu7_thermal",
      "cpu8_thermal", "cpu9_thermal", "cpu10_thermal", "cpu11_thermal" }

\* collections.deque([0] * n, maxlen=n)
deque_zeros(n) == [i \in 1..n |-> 0]

\* deque.append that discards the new item when the deque is full.
deque_append_dropsNewest(d, v, maxlen) ==
    IF Len(d) = maxlen THEN d ELSE Append(d, v)

\* deque.append on a deque with maxlen: when the deque is full the item at
\* the opposite end is discarded.
deque_append(d, v, maxlen) ==
    IF Len(d) = maxlen THEN Append(Tail(d), v) ELSE Append(d, v)

\* The loops of get_temps over temps.items() and over the entries of an
\* item, from item i, entry j on; acc holds cpuTemp, memTemp and gpuTemp.
RECURSIVE scan_temps(_, _, _, _)
scan_temps(temps, i, j, acc) ==
    IF i > Len(temps) THEN acc
    ELSE IF j > Len(temps[i][2]) THEN scan_temps(temps, i + 1, 1, acc)
    ELSE LET name    == temps[i][1]
             current == temps[i][2][j]
             acc1    == IF name \in CpuThermalNames
                        THEN [acc EXCEPT !.cpuTemp = @ + current]
                        ELSE IF name = "ddr_thermal"
                        THEN [acc EXCEPT !.memTemp = current]
                        ELSE IF name = "video_thermal"
                        THEN [acc EXCEPT !.gpuTemp = current]
                        ELSE acc
         IN  scan_temps(temps, i, j + 1, acc1)

\* Handler.get_temps with the reading temps.
get_temps(m, temps) ==
    IF temps # << >>
    THEN LET acc == scan_temps(temps, 1, 1,
                               [cpuTemp |-> 0, memTemp |-> 0, gpuTemp |-> 0])
         IN  [m EXCEPT
                !.cpu_temp = deque_append(@, acc.cpuTemp, TEMP_SAMPLES),
                !.mem_temp = deque_append(@, acc.memTemp, TEMP_SAMPLES),
                !.gpu_temp = deque_append(@, acc.gpuTemp, TEMP_SAMPLES),
                !.arrived  = Append(@, <<acc.cpuTemp, acc.memTemp, acc.gpuTemp>>),
                !.cycles   = @ + 1]
    ELSE [m EXCEPT !.cycles = @ + 1]

\* get_temps run n times (n >= 1) with the same reading: the first half of
\* the runs, then the rest.  (The test on half.cycles only makes the first
\* half be evaluated before the rest.)
RECURSIVE get_temps_times(_, _, _)
get_temps_times(m, temps, n) ==
    IF n = 1 THEN get_temps(m, temps)
    ELSE LET half == get_temps_times(m, temps, n \div 2)
         IN  IF half.cycles >= 0
             THEN get_temps_times(half, temps, n - (n \div 2))
             ELSE half

\* The readings of the model: no sensors at all, four cpu zones with memory
\* and gpu, a reading without ddr_thermal, one with two entries per zone, and
\* one with none of the zones get_temps knows.
Readings ==
    { << >>,
      << <<"cpu0_thermal", <<40>>>>, <<"cpu1_thermal", <<41>>>>,
         <<"cpu2_thermal", <<42>>>>, <<"cpu3_thermal", <<43>>>>,
         <<"ddr_thermal", <<35>>>>, <<"video_thermal", <<38>>>> >>,
      << <<"cpu0_thermal", <<50>>>>, <<"video_thermal", <<45>>>> >>,
      << <<"ddr_thermal", <<36, 37>>>>, <<"cpu5_thermal", <<44, 46>>>> >>,
      << <<"battery", <<30>>>> >> }

\* Handler.__init__: the fields get_temps works on.
MetricsInit ==
    [ cpu_temp |-> deque_zeros(TEMP_SAMPLES),
      mem_temp |-> deque_zeros(TEMP_SAMPLES),
      gpu_temp |-> deque_zeros(TEMP_SAMPLES),
      cycles   |-> 0,
      arrived  |-> << >>,
      singles  |-> 0 ]

(***************************************************************************)
(* QProfProcess (src/visionai.py): the thread that launches qprof and      *)
(* reads CPU, GPU and memory load from its output.  A line of output is a  *)
(* sequence of tokens; the empty sequence is what readline returns at the  *)
(* end of the output.                                                      *)
(***************************************************************************)
\* Number of lines the thread reads from qprof processes.
MaxLines == 3

\* Number of qprof processes the thread launches.
MaxLaunches == 2

\* QProfProcess.__init__, with the position of run (pc) and the calls made
\* so far (log).
QProfInit ==
    [ enabled |-> TRUE, CPU |-> 0, GPU |-> 0, MEM |-> 0,
      pc |-> "new", log |-> << >>, lines |-> 0 ]

\* bytes.find: the first position of tok in line from position i on, -1 if
\* there is none.
RECURSIVE find(_, _, _)
find(line, tok, i) ==
    IF i > Len(line) THEN 0 - 1
    ELSE IF line[i] = tok THEN i
    ELSE find(line, tok, i + 1)

\* The last position of tok in line at or before position j, -1 if none.
RECURSIVE rfind(_, _, _)
rfind(line, tok, j) ==
    IF j < 1 THEN 0 - 1
    ELSE IF line[j] = tok THEN j
    ELSE rfind(line, tok, j - 1)

\* re.search(marker + b"(.*)%", line).group(1): what stands between the
\* first marker and the last "%" after it.  The result of re.search is None
\* when no "%" follows the marker.
re_search(marker, line) ==
    LET i == find(line, marker, 1)
        j == rfind(line, "%", Len(line))
    IN  IF i = 0 - 1 \/ j <= i
        THEN [found |-> FALSE, group |-> << >>]
        ELSE [found |-> TRUE, group |-> SubSeq(line, i + 1, j - 1)]

\* float() of the matched bytes: a number when they are one numeral.
float(group) ==
    IF Len(group) = 1 /\ group[1] \in {"12", "33", "47"}
    THEN [ok |-> TRUE,
          value |-> IF group[1] = "12" THEN 12
                    ELSE IF group[1] = "33" THEN 33 ELSE 47]
    ELSE [ok |-> FALSE, value |-> 0]

\* The marker the if/elif chain of run finds in line, "" if none.
MarkerOf(line) ==
    IF find(line, "CPU Total Load:", 1) > 0 - 1 THEN "CPU Total Load:"
    ELSE IF find(line, "GPU Utilization:", 1) > 0 - 1 THEN "GPU Utilization:"
    ELSE IF find(line, "Memory Usage %:", 1) > 0 - 1 THEN "Memory Usage %:"
    ELSE ""

\* run: the test of the outer loop, while self.enabled.
run_while_enabled(q) ==
    IF q.enabled THEN [q EXCEPT !.pc = "Popen"]
    ELSE [q EXCEPT !.pc = "returned"]

\* run: subprocess.Popen of qprof.
run_Popen(q) ==
    [q EXCEPT !.pc = "inner", !.log = Append(@, "Popen")]

\* run: the test of the inner loop, while self.enabled.
run_while_reading(q) ==
    IF q.enabled THEN [q EXCEPT !.pc = "readline"]
    ELSE [q EXCEPT !.pc = "cleanup"]

\* run: one pass of the inner loop with the line that readline returns.  An
\* exception raised by group(1) on None or by float leaves run.
run_readline(q, line) ==
    LET q1     == [q EXCEPT !.lines = @ + 1]
        marker == MarkerOf(line)
        result == re_search(marker, line)
        value  == float(result.group)
    IN  IF line = << >> THEN [q1 EXCEPT !.pc = "cleanup"]
        ELSE IF marker = "" THEN [q1 EXCEPT !.pc = "inner"]
        ELSE IF ~result.found \/ ~value.ok THEN [q1 EXCEPT !.pc = "raised"]
        ELSE IF marker = "CPU Total Load:"
        THEN [q1 EXCEPT !.pc = "inner", !.CPU = value.value]
        ELSE IF marker = "GPU Utilization:"
        THEN [q1 EXCEPT !.pc = "inner", !.GPU = value.value]
        ELSE [q1 EXCEPT !.pc = "inner", !.MEM = value.value]

\* run: the profiling results are removed after the inner loop.
run_cleanup(q) ==
    [q EXCEPT !.pc = "outer", !.log = Append(@, "rm")]

\* QProfProcess.Close
Close(q) ==
    [q EXCEPT !.enabled = FALSE, !.log = Append(@, "Close")]

\* The lines of the model: the end of the output, a line without a marker,
\* one well-formed line for each marker, a CPU line whose value is no
\* number, a GPU line without the "%" and a memory line with two values.
Lines ==
    { << >>,
      <<"Profiling", "started">>,
      <<"CPU Total Load:", "12", "%">>,
      <<"GPU Utilization:", "47", "%">>,
      <<"Memory Usage %:", "33", "%">>,
      <<"CPU Total Load:", "n/a", "%">>,
      <<"GPU Utilization:", "47">>,
      <<"Memory Usage %:", "33", "%", "of", "47", "%">> }

(***************************************************************************)
(* Steps of the pipeline process.                                          *)
(***************************************************************************)
\* GstPipeline.run up to loop.run(): the loop is created, the pipeline launched.
Run ==
    /\ sup.pc = "new"
    /\ sup' = [launch_pipeline([sup EXCEPT !.loop = "running"], now)
                  EXCEPT !.pc = "loop"]
    /\ UNCHANGED <<now, hd, rv, mt, qp>>

\* The streaming thread passes a buffer through the identity element.
Handoff ==
    /\ sup.pc = "loop"
    /\ sup.pipeline # None
    /\ sup.pipes[sup.pipeline].state = "PLAYING"
    /\ sup' = on_buffer_handoff(sup, now)
    /\ UNCHANGED <<now, hd, rv, mt, qp>>

\* The main loop dispatches a watchdog timeout that is due.  After loop.quit()
\* the sources already due in the current iteration are still dispatched.
WatchdogCheck ==
    /\ sup.pc = "loop"
    /\ \E tm \in sup.timers :
         /\ tm.due <= now
         /\ \E late \in BOOLEAN :
              /\ late => Restarts(sup, now)
              /\ sup' = watchdog_timer_check(sup, tm, now, late)
    /\ UNCHANGED <<now, hd, rv, mt, qp>>

\* The main loop dispatches a message of the pipeline's bus.  (A message
\* dispatched after loop.quit() would only call loop.quit() once more.)
BusMessage ==
    /\ sup.pc = "loop"
    /\ sup.loop = "running"
    /\ sup.pipeline # None
    /\ \E m \in {"ERROR", "EOS", "STATE_CHANGED"} :
         sup' = on_message(sup, m)
    /\ UNCHANGED <<now, hd, rv, mt, qp>>

\* SIGINT / KeyboardInterrupt ends loop.run().
Interrupt ==
    /\ sup.pc = "loop"
    /\ sup.loop = "running"
    /\ sup' = [stop_loop(sup) EXCEPT !.cause = "SIGINT"]
    /\ UNCHANGED <<now, hd, rv, mt, qp>>

\* loop.run() returns and the finally clause of run() calls _teardown.
Finally ==
    /\ sup.pc = "loop"
    /\ sup.loop = "quit"
    /\ sup' = [teardown(sup) EXCEPT !.pc = "done"]
    /\ UNCHANGED <<now, hd, rv, mt, qp>>

\* Time passes while the loop runs; a due timeout is dispatched before the
\* clock moves on.
Tick ==
    /\ sup.pc = "loop"
    /\ sup.loop = "running"
    /\ now < MaxTime
    /\ \A tm \in sup.timers : tm.due > now
    /\ now' = now + ClockStep
    /\ UNCHANGED <<sup, hd, rv, mt, qp>>

\* A caller repeats _teardown on a GstPipeline whose run() has returned.
StopAgain ==
    /\ sup.pc = "done"
    /\ sup.stops < MaxExtraCalls
    /\ sup' = [teardown(sup) EXCEPT !.stops = @ + 1]
    /\ UNCHANGED <<now, hd, rv, mt, qp>>

\* Time passes after run() returned.
TickStopped ==
    /\ sup.pc = "done"
    /\ now < MaxTime
    /\ \A tm \in sup.timers : tm.due > now
    /\ now' = now + ClockStep
    /\ UNCHANGED <<sup, hd, rv, mt, qp>>

\* _teardown leaves the watchdog timeout attached to the default main
\* context; the context is iterated again after run() returned and dispatches
\* the timeout when it is due.
LateWatchdog ==
    /\ sup.pc = "done"
    /\ \E tm \in sup.timers :
         /\ tm.due <= now
         /\ sup' = watchdog_timer_check(sup, tm, now, FALSE)
    /\ UNCHANGED <<now, hd, rv, mt, qp>>

\* A caller repeats _launch_pipeline on a GstPipeline that is running.
StartAgain ==
    /\ sup.pc = "loop"
    /\ sup.loop = "running"
    /\ sup.enabled
    /\ sup.pipeline # None
    /\ sup.starts < MaxExtraCalls
    /\ sup' = [launch_pipeline(sup, now) EXCEPT !.starts = @ + 1]
    /\ UNCHANGED <<now, hd, rv, mt, qp>>

\* A watchdog check that restarts, with a set_state call of
\* _pipeline_teardown that does not return.
WatchdogBlocks ==
    /\ sup.pc = "loop"
    /\ sup.hangs < MaxHangs
    /\ Restarts(sup, now)
    /\ \E tm \in sup.timers, k \in 1..3 :
         /\ tm.due <= now
         /\ sup' = pipeline_teardown_blocks(
                      [sup EXCEPT !.checks = @ + 1, !.last_buffer_time = None],
                      "watchdog", k, now, tm)
    /\ UNCHANGED <<now, hd, rv, mt, qp>>

\* The _teardown of run()'s finally clause, with a set_state call of
\* _pipeline_teardown that does not return.
FinallyBlocks ==
    /\ sup.pc = "loop"
    /\ sup.loop = "quit"
    /\ sup.pipeline # None
    /\ sup.hangs < MaxHangs
    /\ \E k \in 1..3 :
         sup' = pipeline_teardown_blocks(sup, "teardown", k, now, NoHang.tm)
    /\ UNCHANGED <<now, hd, rv, mt, qp>>

\* Time passes while the thread of the main loop is inside set_state.
TickBlocked ==
    /\ sup.pc = "blocked"
    /\ now < MaxTime
    /\ now' = now + ClockStep
    /\ UNCHANGED <<sup, hd, rv, mt, qp>>

\* The set_state call returns and the caller of _pipeline_teardown goes on:
\* _watchdog_timer_check launches the new pipeline and returns False,
\* _teardown resets the flags and quits the loop.
SetStateReturns ==
    /\ sup.pc = "blocked"
    /\ LET s1 == pipeline_teardown_resumes(sup)
       IN  sup' = IF sup.hung.who = "watchdog"
                  THEN [launch_pipeline(
                          [s1 EXCEPT !.timers = @ \ {sup.hung.tm}], now)
                          EXCEPT !.pc = "loop"]
                  ELSE [stop_loop([s1 EXCEPT !.enabled = FALSE,
                                             !.last_buffer_time = None])
                          EXCEPT !.pc = "done"]
    /\ UNCHANGED <<now, hd, rv, mt, qp>>

(***************************************************************************)
(* Steps of the GUI process.                                               *)
(***************************************************************************)
LocalApp ==
    /\ hd.pc = "boot"
    /\ hd' = localApp(hd)
    /\ UNCHANGED <<sup, now, rv, mt, qp>>

\* The user changes the selection of the combo box of a slot.
Select ==
    /\ hd.pc = "main"
    /\ hd.issued < MaxSelections
    /\ \E slot \in Slots, index \in DemoIndices :
         hd' = [hd EXCEPT !.queue  = Append(@, <<slot, index>>),
                          !.issued = @ + 1,
                          !.log    = Append(@, <<"arrive", slot, index>>)]
    /\ UNCHANGED <<sup, now, rv, mt, qp>>

\* demoN_selection_changed_cb is called and runs kill_demos up to its sleep.
Dispatch ==
    /\ CanDispatch(hd)
    /\ hd.queue # << >>
    /\ LET slot  == Head(hd.queue)[1]
           index == Head(hd.queue)[2]
           h1    == [hd EXCEPT !.queue = Tail(@),
                               !.stack = <<Head(hd.queue)>> \o @,
                               !.log   = Append(@, <<"select", slot, index>>)]
       IN  hd' = kill_demos(h1, slot, index)
    /\ UNCHANGED <<sup, now, rv, mt, qp>>

\* The sleep of kill_demos returns and the callback runs to its end.
Settle ==
    /\ hd.pc = "main"
    /\ hd.stack # << >>
    /\ LET slot  == Head(hd.stack)[1]
           index == Head(hd.stack)[2]
           h1    == [kill_demos_sleep(hd) EXCEPT !.stack = Tail(@)]
           h2    == selection_changed_cb(h1, slot, index)
       IN  hd' = [h2 EXCEPT !.last = <<slot, index>>,
                            !.log  = Append(@, <<"return", slot, index>>)]
    /\ UNCHANGED <<sup, now, rv, mt, qp>>

\* Handler.exit: SIGINT or the main window is destroyed.
Exit ==
    /\ CanDispatch(hd)
    /\ hd' = [on_mainWindow_destroy(hd) EXCEPT !.pc = "exited"]
    /\ UNCHANGED <<sup, now, rv, mt, qp>>

\* Handler.getCommand is called for the first time, with a demo index and a
\* stream index.  (Later calls find allocated_sizes set and compute the same
\* function of the same fields.)
GetCommand ==
    /\ rv.status = "none"
    /\ \E demoIndex \in IndexInputs, stream_index \in Slots :
         rv' = getCommand(rv, demoIndex, stream_index)
    /\ UNCHANGED <<sup, now, hd, mt, qp>>

\* The timeout of get_temps fires once.
GetTemps ==
    /\ mt.singles < MaxCycles
    /\ \E temps \in Readings :
         mt' = [get_temps(mt, temps) EXCEPT !.singles = @ + 1]
    /\ UNCHANGED <<sup, now, hd, rv, qp>>

\* The timeout of get_temps fires n times in a row with the same reading,
\* n being one less than the length of the deques or that length.
GetTempsRun ==
    /\ mt.cycles = 0
    /\ \E temps \in Readings, n \in {TEMP_SAMPLES - 1, TEMP_SAMPLES} :
         mt' = get_temps_times(mt, temps, n)
    /\ UNCHANGED <<sup, now, hd, rv, qp>>

\* QProfProcess.start: the thread begins run.
QProfStart ==
    /\ qp.pc = "new"
    /\ qp' = [qp EXCEPT !.pc = "outer"]
    /\ UNCHANGED <<sup, now, hd, rv, mt>>

\* The thread tests the condition of the outer loop.
QProfOuter ==
    /\ qp.pc = "outer"
    /\ qp' = run_while_enabled(qp)
    /\ UNCHANGED <<sup, now, hd, rv, mt>>

\* The thread launches qprof.
QProfPopen ==
    /\ qp.pc = "Popen"
    /\ Len(SelectSeq(qp.log, LAMBDA c : c = "Popen")) < MaxLaunches
    /\ qp' = run_Popen(qp)
    /\ UNCHANGED <<sup, now, hd, rv, mt>>

\* The thread tests the condition of the inner loop.
QProfInner ==
    /\ qp.pc = "inner"
    /\ qp' = run_while_reading(qp)
    /\ UNCHANGED <<sup, now, hd, rv, mt>>

\* readline returns a line, or the end of the output, and the thread
\* handles it.
QProfReadline ==
    /\ qp.pc = "readline"
    /\ qp.lines < MaxLines
    /\ \E line \in Lines : qp' = run_readline(qp, line)
    /\ UNCHANGED <<sup, now, hd, rv, mt>>

\* The thread removes the profiling results.
QProfCleanup ==
    /\ qp.pc = "cleanup"
    /\ qp' = run_cleanup(qp)
    /\ UNCHANGED <<sup, now, hd, rv, mt>>

\* on_mainWindow_destroy calls QProf.Close() from the main thread, at any
\* point of run.
QProfClose ==
    /\ qp.enabled
    /\ qp' = Close(qp)
    /\ UNCHANGED <<sup, now, hd, rv, mt>>

Init ==
    /\ sup = GstInit
    /\ now = 0
    /\ hd = HandlerInit
    /\ rv = ResolverInit([s \in Slots |-> [x |-> 0, y |-> 0, width |-> 1,
                                           height |-> 1]], << >>, TRUE)
    /\ mt = << >>
    /\ qp = QProfInit

\* The Handler with any layout of the draw areas, any set of cameras and
\* either setting of display_fps_metrics.
InitR ==
    /\ sup = GstInit
    /\ now = 0
    /\ hd = HandlerInit
    /\ rv \in ResolverInits
    /\ mt = << >>
    /\ qp = QProfInit

Next ==
    \/ Run
    \/ Handoff
    \/ WatchdogCheck
    \/ BusMessage
    \/ Interrupt
    \/ Finally
    \/ Tick

Spec == Init /\ [][Next]_vars

FairSpec == Spec /\ WF_vars(Finally)

NextH ==
    \/ LocalApp
    \/ Select
    \/ Dispatch
    \/ Settle
    \/ Exit

SpecH == Init /\ [][NextH]_vars

\* The pipeline process with set_state calls that may take any time to
\* return.
NextHang ==
    \/ Next
    \/ WatchdogBlocks
    \/ FinallyBlocks
    \/ TickBlocked
    \/ SetStateReturns

SpecHang == Init /\ [][NextHang]_vars

\* The Handler whose get_temps timeout fires.  The specifications above
\* leave the temperature deques out (mt is empty there).
InitM ==
    /\ sup = GstInit
    /\ now = 0
    /\ hd = HandlerInit
    /\ rv = ResolverInit([s \in Slots |-> [x |-> 0, y |-> 0, width |-> 1,
                                           height |-> 1]], << >>, TRUE)
    /\ mt = MetricsInit
    /\ qp = QProfInit

NextM ==
    \/ GetTemps
    \/ GetTempsRun

SpecM == InitM /\ [][NextM]_vars

\* The QProfProcess thread and the main thread that closes it.
NextQ ==
    \/ QProfStart
    \/ QProfOuter
    \/ QProfPopen
    \/ QProfInner
    \/ QProfReadline
    \/ QProfCleanup
    \/ QProfClose

SpecQ == Init /\ [][NextQ]_vars

NextR == GetCommand

SpecR == InitR /\ [][NextR]_vars

\* The pipeline process with a caller that stops it again after run() has
\* returned and a main context that is still iterated.
NextStop ==
    \/ Next
    \/ StopAgain
    \/ TickStopped
    \/ LateWatchdog

SpecStop == Init /\ [][NextStop]_vars

\* The pipeline process with a caller that starts it again while it runs.
NextStart ==
    \/ Next
    \/ StartAgain

SpecStart == Init /\ [][NextStart]_vars

(***************************************************************************)
(* Properties of the supervised pipeline.                                  *)
(***************************************************************************)
Handles == 1..Len(sup.pipes)

Prefix(tr, k) == SubSeq(tr, 1, k)

\* C1: a GstPipeline that has not received a buffer handoff is never
\* restarted: a watchdog check that finds last_buffer_time absent tears
\* nothing down and launches nothing, whatever the time and however many
\* checks ran, so as long as no pipeline has handed off a buffer the watchdog
\* has torn none down.
C1_NoRestartBeforeFirstSignal ==
    /\ []((\A h \in Handles : ~sup.pipes[h].fed)
             => (\A h \in Handles : sup.pipes[h].by # "watchdog"))
    /\ [][(sup.last_buffer_time = None /\ sup'.checks # sup.checks)
             => /\ sup'.pipes = sup.pipes
                /\ sup'.pipeline = sup.pipeline
                /\ sup'.trace = sup.trace]_vars

C1_Witness ==
    /\ sup.pc = "loop"
    /\ sup.checks >= 2
    /\ now > 2 * GST_WATCHDOG_TIMER_MAX_ms
    /\ Len(sup.pipes) = 1
    /\ ~sup.pipes[1].fed
    /\ sup.pipes[1].state = "PLAYING"

\* C2: at most one pipeline handle is live at any point of the run, also
\* between the calls made inside one callback, and whenever a pipeline is
\* created every earlier one has already been set to NULL.
C2_AtMostOneLiveHandle ==
    /\ Cardinality(LiveHandles(sup)) <= 1
    /\ \A k \in 1..Len(sup.trace) :
         /\ Cardinality(LiveAfter(Prefix(sup.trace, k))) <= 1
         /\ sup.trace[k][1] = "parse_launch"
              => /\ LiveAfter(Prefix(sup.trace, k - 1)) = {}
                 /\ \A h \in 1..(sup.trace[k][2] - 1) :
                      \E j \in 1..(k - 1) :
                         sup.trace[j] = <<"set_state", h, "NULL">>

C2_Witness ==
    /\ Len(sup.pipes) >= 2
    /\ sup.pipes[1].by = "watchdog"
    /\ sup.pipes[1].state = "NULL"
    /\ sup.pipes[2].state = "PLAYING"
    /\ sup.pipeline = 2

\* C3: the watchdog restarts once per stale interval: every pipeline it
\* tears down had itself delivered a buffer handoff (the claim as stated).
C3_RestartOnlyAfterOwnSignal ==
    \A h \in Handles : sup.pipes[h].by = "watchdog" => sup.pipes[h].fed

StoppedClean ==
    /\ sup.pc = "done"
    /\ sup.pipeline = None
    /\ ~sup.enabled
    /\ sup.last_buffer_time = None
    /\ LiveHandles(sup) = {}

\* C10: once an ERROR or EOS message has been handled the process ends
\* stopped: the run reaches its end with no pipeline reference, no live
\* handle and the watchdog disabled, also when a watchdog check that was due
\* in the same loop iteration runs after the message.
C10_ErrorOrEosEndsStopped ==
    /\ [](sup.pc = "done" => StoppedClean)
    /\ (sup.cause \in {"ERROR", "EOS"}) ~> StoppedClean

\* An ERROR was handled, a watchdog check dispatched after it relaunched the
\* pipeline, and the run has ended.
C10_Witness ==
    /\ sup.pc = "done"
    /\ sup.cause = "ERROR"
    /\ \E i, j \in 1..Len(sup.trace) :
         /\ i < j
         /\ sup.trace[i] = <<"quit">>
         /\ sup.trace[j][1] = "parse_launch"

(***************************************************************************)
(* Properties of the demo selection.                                       *)
(***************************************************************************)
\* The processes started and not closed after the calls of log lg.
RECURSIVE LiveProcsAfter(_)
LiveProcsAfter(lg) ==
    IF lg = << >> THEN {}
    ELSE LET e    == lg[Len(lg)]
             prev == LiveProcsAfter(SubSeq(lg, 1, Len(lg) - 1))
         IN  CASE e[1] = "start" -> prev \cup {e[2]}
               [] e[1] = "close" -> prev \ {e[2]}
               [] OTHER          -> prev

\* The position of the "select" that opens the callback in which call j of
\* the log was made; 0 when call j was made outside a selection callback.
SegStart(lg, j) ==
    LET S == { i \in 1..(j - 1) : lg[i][1] = "select" }
    IN  IF S = {} THEN 0 ELSE CHOOSE i \in S : \A k \in S : k <= i

LogPos == 1..Len(hd.log)

\* The selection a step of the GUI process works on, << >> when it works on
\* none: Dispatch pushes it on the stack, Settle pops it.
Handled ==
    IF Len(hd'.stack) > Len(hd.stack) THEN Head(hd'.stack)
    ELSE IF Len(hd'.stack) < Len(hd.stack) THEN Head(hd.stack)
    ELSE << >>

\* C4: when a dual-output demo is started, every process that was running
\* has been closed before: no process is live at the moment of its start.
C4_DualStartsAfterBothClosed ==
    \A j \in LogPos :
        (hd.log[j][1] = "start" /\ IsDual(hd.procs[hd.log[j][2]].demo))
            => LiveProcsAfter(Prefix(hd.log, j - 1)) = {}

\* A dual-output demo was selected while both slots ran a process, and it
\* has been started.
C4_Witness ==
    \E j \in LogPos :
        /\ hd.log[j][1] = "start"
        /\ IsDual(hd.procs[hd.log[j][2]].demo)
        /\ SegStart(hd.log, j) > 0
        /\ LET live == LiveProcsAfter(Prefix(hd.log, SegStart(hd.log, j)))
           IN  \E x, y \in live : hd.procs[x].stream = 0 /\ hd.procs[y].stream = 1

\* C5: a live dual-output process is never live together with another
\* process (the claim as stated).
C5_DualNeverLiveWithAnother ==
    \A p \in LiveProcs(hd) : IsDual(hd.procs[p].demo) => LiveProcs(hd) = {p}

\* C6: a callback that handles a selection that is not dual-output leaves the
\* other slot alone: its demoProcess reference is unchanged, the process it
\* refers to is unchanged, and no close or start is issued on it.
C6_NonDualLeavesOtherSlot ==
    [][(Handled # << >> /\ ~IsDual(Handled[2]))
          => LET o == OtherSlot(Handled[1])
                 q == hd.demoProcess[o]
             IN  /\ hd'.demoProcess[o] = q
                 /\ q # None =>
                      /\ hd'.procs[q] = hd.procs[q]
                      /\ \A k \in (Len(hd.log) + 1)..Len(hd'.log) :
                            hd'.log[k][1] \in {"close", "start"}
                               => hd'.log[k][2] # q]_vars

\* A selection that is not dual-output was handled in one slot while the
\* other slot's process kept running, never closed.
C6_Witness ==
    /\ hd.stack = << >>
    /\ hd.last # << >>
    /\ ~IsDual(hd.last[2])
    /\ LET q == hd.demoProcess[OtherSlot(hd.last[1])]
       IN  /\ q # None
           /\ hd.procs[q].state = "started"
           /\ hd.procs[q].closes = 0

\* C7: when the callback of an empty selection (index 0) returns, the process
\* the slot referred to is closed, the slot refers to no process, and no
\* process was created or started.
C7_EmptySelectionEmptiesSlot ==
    [][(Len(hd'.stack) < Len(hd.stack) /\ Head(hd.stack)[2] = 0)
          => LET slot == Head(hd.stack)[1]
                 q    == hd.demoProcess[slot]
             IN  /\ hd'.demoProcess[slot] = None
                 /\ Len(hd'.procs) = Len(hd.procs)
                 /\ LiveProcs(hd') \subseteq LiveProcs(hd)
                 /\ q # None => hd'.procs[q].state = "closed"]_vars

\* The empty selection was handled in slot 0 and closed the process that ran
\* there.
C7_Witness ==
    /\ hd.stack = << >>
    /\ hd.last = <<0, 0>>
    /\ hd.demoProcess[0] = None
    /\ hd.procs[1].state = "closed"
    /\ LiveProcs(hd) = {}

\* C8: for every process a selection callback starts, the callback slept the
\* settle delay right before, every close of the callback was made before that
\* sleep and at least the settle delay before the start, and no process of
\* the slot is live when the new one starts.
C8_SettleBetweenCloseAndStart ==
    \A j \in LogPos :
        (hd.log[j][1] = "start" /\ SegStart(hd.log, j) > 0)
            => LET b == SegStart(hd.log, j)
               IN  /\ hd.log[j - 1][1] = "sleep"
                   /\ hd.log[j - 1][2] = SETTLE_DELAY_ms
                   /\ \A k \in b..(j - 1) :
                        hd.log[k][1] = "close"
                           => /\ k < j - 1
                              /\ hd.log[k][3] + SETTLE_DELAY_ms <= hd.log[j][3]
                   /\ \A p \in LiveProcsAfter(Prefix(hd.log, j - 1)) :
                        hd.procs[p].stream # hd.procs[hd.log[j][2]].stream

\* A callback closed a running process, slept and started a new one.
C8_Witness ==
    \E j \in LogPos :
        /\ hd.log[j][1] = "start"
        /\ SegStart(hd.log, j) > 0
        /\ \E k \in SegStart(hd.log, j)..(j - 1) :
             /\ hd.log[k][1] = "close"
             /\ hd.log[k][2] \in LiveProcsAfter(Prefix(hd.log, k - 1))

\* C9: selection callbacks are not interleaved: a callback is entered only
\* after the one before it returned; no slot ever has two live processes; and
\* when the last callback has returned with a non-empty selection, the slot's
\* only live process is the one of that selection.
C9_SelectionsNotInterleaved ==
    /\ \A i, j \in LogPos :
         (i < j /\ hd.log[i][1] = "select" /\ hd.log[j][1] = "select")
            => \E k \in (i + 1)..(j - 1) : hd.log[k][1] = "return"
    /\ \A slot \in Slots :
         Cardinality({ p \in LiveProcs(hd) : hd.procs[p].stream = slot }) <= 1
    /\ (hd.stack = << >> /\ hd.pc = "main" /\ hd.last # << >> /\ hd.last[2] # 0)
          => LET slot == hd.last[1]
             IN  /\ { p \in LiveProcs(hd) : hd.procs[p].stream = slot }
                       = {hd.demoProcess[slot]}
                 /\ hd.procs[hd.demoProcess[slot]].demo = hd.last[2]

\* Two selections were made on slot 0, the second while the callback of the
\* first was in its sleep, and both callbacks have returned.
C9_Witness ==
    /\ hd.stack = << >>
    /\ hd.queue = << >>
    /\ hd.pc = "main"
    /\ hd.last = <<0, 4>>
    /\ \E i, k, r \in LogPos :
         /\ i < k /\ k < r
         /\ hd.log[i] = <<"select", 0, 2>>
         /\ hd.log[k] = <<"arrive", 0, 4>>
         /\ hd.log[r] = <<"return", 0, 2>>

\* C27: while the GUI runs, after each selection callback no slot's
\* reference demoProcess0 / demoProcess1 points to a camThread that has been
\* closed, and close() is called at most once on a camThread.
C27_ReferencesAreLive ==
    /\ (hd.pc = "main" /\ hd.stack = << >>)
         => \A slot \in Slots :
               hd.demoProcess[slot] # None
                 => hd.procs[hd.demoProcess[slot]].state # "closed"
    /\ \A p \in 1..Len(hd.procs) : hd.procs[p].closes <= 1

(***************************************************************************)
(* Properties of repeated stop and start.                                  *)
(***************************************************************************)
\* C11: _teardown is idempotent: called again on a GstPipeline that is
\* already stopped it leaves it stopped with no pipeline handle, calls
\* set_state on no pipeline (the only call it makes is loop.quit()), and
\* raises no error.
C11_StopIdempotent ==
    /\ [](sup.pc = "done" => StoppedClean /\ ~sup.raised)
    /\ [][(sup.pc = "done" /\ sup'.stops # sup.stops)
             => /\ sup'.pipes = sup.pipes
                /\ sup'.pipeline = None
                /\ sup'.enabled = FALSE
                /\ sup'.last_buffer_time = None
                /\ sup'.loop = "quit"
                /\ sup'.timers = sup.timers
                /\ sup'.trace = Append(sup.trace, <<"quit">>)
                /\ ~sup'.raised]_vars

C11_Witness ==
    /\ sup.pc = "done"
    /\ sup.stops >= 1
    /\ Len(sup.pipes) >= 1

\* C12: _launch_pipeline is idempotent while the pipeline runs: a second
\* call creates no second pipeline handle and arms no second watchdog
\* timeout.
C12_SecondStartIsNoOp ==
    [][(sup.enabled /\ sup.pipeline # None /\ sup'.starts # sup.starts)
          => /\ sup'.pipes = sup.pipes
             /\ sup'.pipeline = sup.pipeline
             /\ sup'.timers = sup.timers]_vars

\* C13: once _teardown has run, no watchdog check tears a pipeline down or
\* launches one: no handle is created any more, and a watchdog timeout that
\* was still armed is removed by its next dispatch without doing anything
\* else.
C13_NoRestartAfterStop ==
    [][sup.pc = "done"
          => /\ sup'.pipes = sup.pipes
             /\ sup'.pipeline = None
             /\ sup'.enabled = FALSE
             /\ sup'.timers \subseteq sup.timers
             /\ (sup'.checks # sup.checks => sup'.timers # sup.timers)]_vars

C13_Witness ==
    /\ sup.pc = "done"
    /\ Len(sup.pipes) >= 2
    /\ sup.checks >= 3
    /\ sup.timers = {}

\* The time a silent pipeline or a blocked shutdown is given before the
\* supervisor is expected to have escalated: two watchdog intervals.
EscalationHorizon == 2 * WatchdogInterval

\* The current pipeline was launched by a restart and has handed off no
\* buffer, and last_buffer_time is absent.
SilentAfterRestart ==
    /\ sup.pc = "loop"
    /\ sup.pipeline # None
    /\ sup.pipeline >= 2
    /\ ~sup.pipes[sup.pipeline].fed
    /\ sup.last_buffer_time = None

C19_TeardownBounded ==
    sup.pc = "blocked" => now - sup.hung.at < EscalationHorizon

\* The states set on handle h by the calls of the trace, in order.
StatesSetOn(h) ==
    LET calls == SelectSeq(sup.trace,
                           LAMBDA e : e[1] = "set_state" /\ e[2] = h)
    IN  [i \in 1..Len(calls) |-> calls[i][3]]

\* The life of a pipeline handle: launched into PLAYING, then shut down.
StateOrder == <<"PLAYING", "PAUSED", "READY", "NULL">>

\* C23: every teardown of a pipeline, by the watchdog's restart and by
\* _teardown alike, sets PAUSED, then READY, then NULL on it, skipping and
\* reordering nothing, and the reference self.pipeline is dropped only once
\* NULL has been set: a handle that is still referenced has not reached
\* NULL, also while a set_state call of the shutdown has not yet returned.
C23_OrderedShutdown ==
    \A h \in Handles :
       LET st == StatesSetOn(h)
       IN  /\ Len(st) >= 1
           /\ Len(st) <= Len(StateOrder)
           /\ st = SubSeq(StateOrder, 1, Len(st))
           /\ sup.pipes[h].state = st[Len(st)]
           /\ (sup.pipeline = h) <=> (Len(st) < Len(StateOrder))

C23_Witness ==
    /\ sup.pc = "done"
    /\ Len(sup.pipes) = 2
    /\ sup.pipes[1].by = "watchdog"
    /\ sup.pipes[2].by = "teardown"
    /\ sup.hangs = 1
    /\ StatesSetOn(1) = StateOrder
    /\ StatesSetOn(2) = StateOrder

\* A watchdog check restarts the pipeline in this step.
RestartStep ==
    /\ sup'.checks # sup.checks
    /\ Len(sup'.pipes) > Len(sup.pipes)

\* C24: at the moment a restart has launched the new pipeline,
\* last_buffer_time is absent: a buffer handed off by the old pipeline
\* while the watchdog callback runs is not kept for the new pipeline.
C24_TimestampAbsentAfterRestart ==
    [][RestartStep => sup'.last_buffer_time = None]_vars

\* C25: a pipeline that stopped handing off buffers is restarted no later
\* than the staleness threshold plus one check period (1500 ms + 250 ms)
\* after its last handoff: while the loop runs, last_buffer_time is never
\* older than that.
C25_RestartWithinThresholdPlusPeriod ==
    ( /\ sup.pc = "loop"
      /\ sup.loop = "running"
      /\ sup.enabled
      /\ sup.last_buffer_time # None )
      => now - sup.last_buffer_time
           <= GST_WATCHDOG_TIMER_MAX_ms + GST_WATCHDOG_CHECK_PERIOD_ms

\* The calls of kind k in the trace.
CallsOf(k) == SelectSeq(sup.trace, LAMBDA e : e[1] = k)

\* C26: at most one watchdog timeout is armed in every state, however many
\* restarts there were; every launch arms exactly one, and while the
\* GstPipeline is enabled and holds a pipeline exactly one is armed, the one
\* added with that pipeline.
C26_OneWatchdogTimer ==
    /\ Cardinality(sup.timers) <= 1
    /\ Len(CallsOf("timeout_add")) = Len(CallsOf("parse_launch"))
    /\ Len(CallsOf("parse_launch")) = Len(sup.pipes)
    /\ (sup.enabled /\ sup.pipeline # None)
          => \E tm \in sup.timers : sup.timers = {tm} /\ tm.id = sup.pipeline

C26_Witness ==
    /\ sup.pc = "loop"
    /\ Len(sup.pipes) >= 3
    /\ sup.enabled
    /\ sup.pipeline = Len(sup.pipes)
    /\ Cardinality(sup.timers) = 1

(***************************************************************************)
(* Properties of getCommand.                                               *)
(***************************************************************************)
\* The demoList entry the last call of getCommand looked up.
Entry == PyIndex(demoList, rv.demoIndex)

\* The formatted window geometries in the command returned.
Geometries ==
    { rv.command[i] : i \in { j \in 1..Len(rv.command) :
                                rv.command[j][1] = "x= y= width= height=" } }

\* C14: a command getCommand returns contains none of the tags <DATA_SRC>,
\* <SINGLE_DISPLAY>, <DUAL_DISPLAY>, <ONE_WINDOW_XYWH>, <DUAL_WINDOW_XYWH>,
\* whatever the demo, the stream, the cameras and the draw areas; that holds
\* for the geometry tags the display substitutions bring in as well.
C14_NoPlaceholderLeft ==
    rv.status = "ok"
      => /\ rv.command # << >>
         /\ \A i \in 1..Len(rv.command) :
              ~(rv.command[i][1] = "ph" /\ rv.command[i][2] \in Placeholders)

C14_Witness ==
    /\ rv.status = "ok"
    /\ Entry = "POSE_DETECTION"
    /\ rv.stream_index = 1
    /\ rv.display_fps_metrics
    /\ Geometries = { xywh(rv.DrawArea2_x, rv.DrawArea2_y, rv.DrawArea2_w,
                            rv.DrawArea2_h) }

\* C15: when both draw areas have the same width w and height h, the command
\* of the dual-window demo places its window at the origin of draw area 1
\* with width 2*w and height h, for stream 0 and for stream 1 alike.
C15_DualWindowEqualSlots ==
    ( /\ rv.status = "ok"
      /\ Entry = "DEPTH_SEGMENTATION"
      /\ rv.alloc[0].width = rv.alloc[1].width
      /\ rv.alloc[0].height = rv.alloc[1].height )
      => Geometries = { xywh(rv.alloc[0].x, rv.alloc[0].y + HEIGHT_OFFSET,
                             2 * rv.alloc[0].width, rv.alloc[0].height) }

C15_Witness ==
    /\ rv.status = "ok"
    /\ Entry = "DEPTH_SEGMENTATION"
    /\ rv.stream_index = 1
    /\ rv.alloc[0].width = rv.alloc[1].width
    /\ rv.alloc[0].height = rv.alloc[1].height
    /\ rv.alloc[0].x # rv.alloc[1].x
    /\ rv.alloc[0].y # rv.alloc[1].y

\* C16: for every pair of draw areas, of unequal size too, the command of
\* the dual-window demo places its window at the origin of draw area 1 with
\* a width of the two draw areas' widths added, for stream 0 and for stream
\* 1 alike.
C16_DualWindowSpansBothSlots ==
    (rv.status = "ok" /\ Entry = "DEPTH_SEGMENTATION")
      => /\ Geometries # {}
         /\ \A g \in Geometries :
              /\ g[2] = rv.alloc[0].x
              /\ g[3] = rv.alloc[0].y + HEIGHT_OFFSET
              /\ g[4] = rv.alloc[0].width + rv.alloc[1].width

\* C17: getCommand called with a demo index that names no template (0, a
\* negative index, an index past the end of demoList) raises an error and
\* returns no command; it never returns the command of another template.
C17_UnknownIndexIsError ==
    (rv.status # "none" /\ rv.demoIndex \notin 1..(Len(demoList) - 1))
      => /\ rv.status # "ok"
         /\ rv.command = << >>

(***************************************************************************)
(* Properties of the temperature deques.                                   *)
(***************************************************************************)
\* The values of channel c (1 cpu, 2 mem, 3 gpu) appended so far, after the
\* zeros the deque was created with.
Arrivals(c) ==
    deque_zeros(TEMP_SAMPLES) \o [i \in 1..Len(mt.arrived) |-> mt.arrived[i][c]]

\* The last n items of sequence q.
MostRecent(q, n) == SubSeq(q, Len(q) - n + 1, Len(q))

\* C20: after any number of sampling cycles each temperature deque holds no
\* more than its fixed length of 1800 samples, and they are the most recent
\* ones in the order they arrived (the zeros of the constructor counting as
\* the oldest): an append to the full deque evicts the oldest.
C20_RingBuffers ==
    /\ Len(mt.cpu_temp) <= TEMP_SAMPLES
    /\ Len(mt.mem_temp) <= TEMP_SAMPLES
    /\ Len(mt.gpu_temp) <= TEMP_SAMPLES
    /\ mt.cpu_temp = MostRecent(Arrivals(1), TEMP_SAMPLES)
    /\ mt.mem_temp = MostRecent(Arrivals(2), TEMP_SAMPLES)
    /\ mt.gpu_temp = MostRecent(Arrivals(3), TEMP_SAMPLES)

C20_Witness ==
    /\ Len(mt.arrived) > TEMP_SAMPLES
    /\ mt.cycles > Len(mt.arrived)
    /\ mt.cpu_temp[1] # 0
    /\ mt.cpu_temp[TEMP_SAMPLES] # mt.cpu_temp[1]

(***************************************************************************)
(* Properties of the QProfProcess thread (specification SpecQ).            *)
(***************************************************************************)
\* C21: a telemetry read error is never fatal to the sampler: a line of
\* qprof output that carries a recognized marker but whose value cannot be
\* parsed does not end the reader thread, which goes on to the next line.
C21_ReadErrorsNeverFatal == qp.pc # "raised"

\* The calls the thread has made, without those of the main thread.
ThreadCalls == SelectSeq(qp.log, LAMBDA c : c # "Close")

\* Every qprof process but the first is launched right after the profiling
\* results have been removed.
CleanupBeforeRelaunch ==
    \A k \in 2..Len(ThreadCalls) :
       ThreadCalls[k] = "Popen" => ThreadCalls[k - 1] = "rm"

\* No qprof process is launched once Close() has been called.
NoLaunchAfterClose ==
    \A k \in 1..Len(qp.log) :
       qp.log[k] = "Popen" => \A j \in 1..(k - 1) : qp.log[j] # "Close"

\* C22: when the output of qprof ends the profiling results are removed
\* first and only then is a new qprof process launched, and no process is
\* launched after Close().
C22_RelaunchAfterCleanupNotAfterClose ==
    CleanupBeforeRelaunch /\ NoLaunchAfterClose

====
